---- MODULE Spec2Model ----
(***************************************************************************)
(* Model of scripts/update_oui.py: the OUI registry updater.               *)
(*                                                                         *)
(* A Python str is modelled as a sequence of one-character strings, so     *)
(* that strip, upper, replace, slicing, the two regular expressions and    *)
(* sorted() are computed character by character, as the code computes     *)
(* them.  The empty sequence << >> is the empty str.                       *)
(***************************************************************************)
EXTENDS Integers, Sequences, FiniteSets, TLC

(***************************************************************************)
(* Bounds of the model.                                                    *)
(***************************************************************************)
\* the longest input text, in lines
MaxLines == 3

(***************************************************************************)
(* Characters.                                                             *)
(***************************************************************************)
TAB == "\t"
NL == "\n"

\* the characters of the model that Python's \s and str.strip() treat as
\* white space and that can occur inside a line of text.splitlines()
WS == {" ", TAB}

Digits == <<"0","1","2","3","4","5","6","7","8","9">>
LowerAlpha == <<"a","b","c","d","e","f","g","h","i","j","k","l","m",
                "n","o","p","q","r","s","t","u","v","w","x","y","z">>
UpperAlpha == <<"A","B","C","D","E","F","G","H","I","J","K","L","M",
                "N","O","P","Q","R","S","T","U","V","W","X","Y","Z">>

\* the characters of the model in code point order (the order of str <)
CodePoints == <<TAB, NL, " ", "#", "(", ")", ",", "-", ".", "/">> \o Digits
                \o <<":">> \o UpperAlpha \o <<"_">> \o LowerAlpha

Range(s) == {s[i] : i \in 1..Len(s)}

Ord(c) == CHOOSE i \in 1..Len(CodePoints) : CodePoints[i] = c

At(s, i) == IF i \in 1..Len(s) THEN s[i] ELSE ""

Min(a, b) == IF a <= b THEN a ELSE b

(***************************************************************************)
(* str methods.                                                            *)
(***************************************************************************)
\* c.upper() for one character
UpperChar(c) ==
    IF \E i \in 1..Len(LowerAlpha) : LowerAlpha[i] = c
    THEN UpperAlpha[CHOOSE i \in 1..Len(LowerAlpha) : LowerAlpha[i] = c]
    ELSE c

\* s.upper()
upper(s) == [i \in 1..Len(s) |-> UpperChar(s[i])]

\* s.strip()
strip(s) ==
    LET keep == {i \in 1..Len(s) : s[i] \notin WS}
    IN  IF keep = {} THEN << >>
        ELSE LET lo == CHOOSE i \in keep : \A j \in keep : i <= j
                 hi == CHOOSE i \in keep : \A j \in keep : j <= i
             IN  SubSeq(s, lo, hi)

\* s.replace(ch, "")
remove(s, ch) == SelectSeq(s, LAMBDA c : c # ch)

\* s.startswith(p), also used for a literal at position i of a pattern
LiteralAt(s, i, p) ==
    /\ i + Len(p) - 1 <= Len(s)
    /\ \A k \in 1..Len(p) : s[i + k - 1] = p[k]

startswith(s, p) == LiteralAt(s, 1, p)

\* re.sub(r"\s+", " ", s): every maximal run of white space becomes one space
CollapseWS(s) ==
    LET first(i) == s[i] \notin WS \/ i = 1 \/ s[i-1] \notin WS
        idx == SelectSeq([i \in 1..Len(s) |-> i], first)
    IN  [k \in 1..Len(idx) |-> IF s[idx[k]] \in WS THEN " " ELSE s[idx[k]]]

\* a < b for str: the first differing character decides, a proper prefix is smaller
StrLess(a, b) ==
    \E k \in 1..(Min(Len(a), Len(b)) + 1) :
        /\ \A j \in 1..(k-1) : a[j] = b[j]
        /\ \/ k = Len(a) + 1 /\ k <= Len(b)
           \/ k <= Len(a) /\ k <= Len(b) /\ Ord(a[k]) < Ord(b[k])

(***************************************************************************)
(* normalize_oui                                                           *)
(***************************************************************************)
\* normalize_oui without .upper()
normalize_oui_no_upper(s) ==
    LET t == remove(remove(strip(s), ":"), "-")
    IN  SubSeq(t, 1, Min(6, Len(t)))

normalize_oui(s) ==
    LET t == remove(remove(upper(strip(s)), ":"), "-")
    IN  SubSeq(t, 1, Min(6, Len(t)))

(***************************************************************************)
(* The regular expressions HEX_RE and HEX6_RE, matched with re.match.      *)
(***************************************************************************)
HexChars == Range(Digits) \cup {"A","B","C","D","E","F"}
               \cup {"a","b","c","d","e","f"}

\* the character class one letter too wide: [0-9A-Ga-g]
IsHex_wide(c) == c \in HexChars \cup {"G", "g"}

\* [0-9A-Fa-f]
IsHex(c) == c \in HexChars

\* [-: ]
Separators == {"-", ":", " "}

\* \s* from position p: the position after the white space (greedy; what
\* follows it in both patterns cannot start with white space)
SkipWS(s, p) ==
    LET stop == {q \in p..Len(s) : s[q] \notin WS}
    IN  IF stop = {} THEN Len(s) + 1
        ELSE CHOOSE q \in stop : \A r \in stop : q <= r

\* [-: ]? from position p: the hex digit that must follow is no separator,
\* so the optional separator is taken exactly when it is there
SkipSep(s, p) == IF At(s, p) \in Separators THEN p + 1 ELSE p

\* [0-9A-Fa-f]{n} at position p
HexRun(s, p, n) == \A k \in 0..(n-1) : IsHex(At(s, p + k))

MarkerHex == <<"(","h","e","x",")">>
MarkerBase16 == <<"(","b","a","s","e"," ","1","6",")">>

\* \((?:hex|base 16)\) at position p: the length matched, 0 for no match
MarkerLen(s, p) ==
    IF LiteralAt(s, p, MarkerHex) THEN Len(MarkerHex)
    ELSE IF LiteralAt(s, p, MarkerBase16) THEN Len(MarkerBase16)
    ELSE 0

NoTail == [ok |-> FALSE, group |-> << >>]

\* \s*(.+?)\s*$ on the rest r of the line after the marker.  \s* is greedy
\* and .+? lazy: with a character that is not white space in r the group
\* runs from the first to the last such character; when r is all white
\* space, \s* gives back its last character and the group is that one
\* character; an empty r does not match.
TailGroup(r) ==
    IF r = << >> THEN NoTail
    ELSE IF \A i \in 1..Len(r) : r[i] \in WS
         THEN [ok |-> TRUE, group |-> <<r[Len(r)]>>]
         ELSE [ok |-> TRUE, group |-> strip(r)]

NoMatch == [ok |-> FALSE, groups |-> << >>]

\* the pattern with \s+ in place of \s* on both sides of the marker
MarkerAndVendor_strict(s, p, keyGroups) ==
    LET q == SkipWS(s, p)
        n == MarkerLen(s, q)
        r == SubSeq(s, q + n, Len(s))
        tail == TailGroup(r)
        blank == \A i \in 1..Len(r) : r[i] \in WS
    IN  IF n = 0 \/ ~tail.ok \/ q = p \/ At(r, 1) \notin WS \/ (blank /\ Len(r) < 2)
        THEN NoMatch
        ELSE [ok |-> TRUE, groups |-> keyGroups \o <<tail.group>>]

\* after the key, from position p: \s*\((?:hex|base 16)\)\s*(.+?)\s*$
MarkerAndVendor(s, p, keyGroups) ==
    LET q == SkipWS(s, p)
        n == MarkerLen(s, q)
        tail == TailGroup(SubSeq(s, q + n, Len(s)))
    IN  IF n = 0 \/ ~tail.ok THEN NoMatch
        ELSE [ok |-> TRUE, groups |-> keyGroups \o <<tail.group>>]

\* HEX_RE.match(line): four groups
HEX_RE(s) ==
    LET p1 == SkipWS(s, 1)
        p2 == SkipSep(s, p1 + 2)
        p3 == SkipSep(s, p2 + 2)
    IN  IF HexRun(s, p1, 2) /\ HexRun(s, p2, 2) /\ HexRun(s, p3, 2)
        THEN MarkerAndVendor(s, p3 + 2, <<SubSeq(s, p1, p1 + 1),
                                          SubSeq(s, p2, p2 + 1),
                                          SubSeq(s, p3, p3 + 1)>>)
        ELSE NoMatch

\* HEX6_RE.match(line): two groups
HEX6_RE(s) ==
    LET p1 == SkipWS(s, 1)
    IN  IF HexRun(s, p1, 6)
        THEN MarkerAndVendor(s, p1 + 6, <<SubSeq(s, p1, p1 + 5)>>)
        ELSE NoMatch

\* HEX_RE.match(line) or HEX6_RE.match(line)
MatchLine(line) ==
    IF HEX_RE(line).ok THEN HEX_RE(line) ELSE HEX6_RE(line)

(***************************************************************************)
(* parse_oui                                                               *)
(***************************************************************************)
IEEE_RA == <<"I","E","E","E"," ","R","E","G","I","S","T","R","A","T","I","O","N",
             " ","A","U","T","H","O","R","I","T","Y">>

\* prefer = lambda v: (v and v.upper() != "IEEE REGISTRATION AUTHORITY")
prefer(v) == v # << >> /\ upper(v) # IEEE_RA

\* the (key, vendor) pair of a match, before the validity test
PairOf(m) ==
    IF Len(m.groups) = 4
    THEN [key |-> normalize_oui(m.groups[1] \o m.groups[2] \o m.groups[3]),
          vendor |-> strip(m.groups[4])]
    ELSE [key |-> normalize_oui(m.groups[1]),
          vendor |-> strip(m.groups[2])]

\* re.sub(r"\s+", " ", vendor).strip().upper()
NormalVendor(vendor) == upper(strip(CollapseWS(vendor)))

\* the first pair of a key always wins: key not in out
Stores_first(tbl, key, vendor) == key \notin DOMAIN tbl

\* a specific pair always wins: key not in out or prefer(vendor)
Stores_specific(tbl, key, vendor) == key \notin DOMAIN tbl \/ prefer(vendor)

\* key not in out or (prefer(vendor) and not prefer(out[key]))
Stores(tbl, key, vendor) ==
    \/ key \notin DOMAIN tbl
    \/ prefer(vendor) /\ ~prefer(tbl[key])

\* out[key] = vendor
Put(tbl, key, vendor) ==
    [k \in DOMAIN tbl \cup {key} |-> IF k = key THEN vendor ELSE tbl[k]]

\* one iteration of the for loop of parse_oui: the table after `line`
ParseStep(tbl, line) ==
    IF line = << >> \/ startswith(line, <<"#">>) THEN tbl
    ELSE LET m == MatchLine(line)
         IN  IF ~m.ok THEN tbl
             ELSE LET pair == PairOf(m)
                      vendor == NormalVendor(pair.vendor)
                  IN  IF Len(pair.key) # 6 \/ pair.vendor = << >> THEN tbl
                      ELSE IF Stores(tbl, pair.key, vendor)
                           THEN Put(tbl, pair.key, vendor)
                           ELSE tbl

\* text.splitlines(), for the line ends "\n", "\r" and "\r\n": a line ends
\* at each line end, and what follows the last line end is a line when it
\* is not empty
splitlines(text) ==
    LET n == Len(text)
        isEnd(p) == text[p] = NL \/ (text[p] = "\r" /\ At(text, p + 1) # NL)
        ends == SelectSeq([p \in 1..n |-> p], isEnd)
        from(k) == IF k = 1 THEN 1 ELSE ends[k - 1] + 1
        upto(k) == IF text[ends[k]] = NL /\ At(text, ends[k] - 1) = "\r"
                   THEN ends[k] - 2 ELSE ends[k] - 1
        whole == [k \in 1..Len(ends) |-> SubSeq(text, from(k), upto(k))]
        last == IF ends = << >> THEN 0 ELSE ends[Len(ends)]
    IN  IF last < n THEN Append(whole, SubSeq(text, last + 1, n)) ELSE whole

\* sorted(keys, reverse=True)
RECURSIVE sorted_reverse(_)
sorted_reverse(keys) ==
    IF keys = {} THEN << >>
    ELSE LET most == CHOOSE k \in keys : \A j \in keys \ {k} : StrLess(j, k)
         IN  <<most>> \o sorted_reverse(keys \ {most})

\* sorted(keys): ascending in the order of str
RECURSIVE sorted(_)
sorted(keys) ==
    IF keys = {} THEN << >>
    ELSE LET least == CHOOSE k \in keys : \A j \in keys \ {k} : StrLess(k, j)
         IN  <<least>> \o sorted(keys \ {least})

\* f"{k}\t{table[k]}\n"
RecordOf(k, v) == k \o <<TAB>> \o v \o <<NL>>

(***************************************************************************)
(* The input lines and texts the environment can serve.                    *)
(***************************************************************************)
SP == <<" ">>
K_dash == <<"0","0","-","0","0","-","0","C">>
K_colon == <<"0","0",":","0","0",":","0","C">>
K_space == <<"0","0"," ","0","0"," ","0","C">>
K_six == <<"0","0","0","0","0","C">>
K_lower == <<"0","0","0","0","0","c">>
K_0A == <<"0","A","1","B","2","C">>
K_0a_colon == <<"0","a",":","1","b",":","2","c">>
K_FF == <<"F","F","F","F","F","F">>
K_bad == <<"G","G",":","0","0",":","0","C">>

V_ieee == <<"I","E","E","E"," ","R","e","g","i","s","t","r","a","t","i","o","n"," ","A","u","t","h","o","r","i","t","y">>
V_ieee_lower == <<"i","e","e","e"," "," ","r","e","g","i","s","t","r","a","t","i","o","n",
                  TAB,"a","u","t","h","o","r","i","t","y">>
V_example == <<"E","x","a","m","p","l","e"," ","C","o","r","p">>
V_acme_ws == <<"A","c","m","e"," "," ",TAB,"L","t","d",TAB>>
V_zeta == <<"Z","e","t","a">>

\* "00-00-0C   (hex)\t\tIEEE Registration Authority"
L_generic == K_dash \o SP \o SP \o SP \o MarkerHex \o <<TAB, TAB>> \o V_ieee
\* "00000c (base 16) ieee  registration\tauthority"
L_generic_lower == K_lower \o SP \o MarkerBase16 \o SP \o V_ieee_lower
\* "00:00:0C (hex) Example Corp"
L_specific == K_colon \o SP \o MarkerHex \o SP \o V_example
\* " 00 00 0C\t(hex)  Acme  \tLtd\t": a second name for the same key
L_second == SP \o K_space \o <<TAB>> \o MarkerHex \o SP \o SP \o V_acme_ws
\* "0A1B2C(hex) Zeta": the marker abuts the key
L_abut_key == K_0A \o MarkerHex \o SP \o V_zeta
\* "0a:1b:2c (base 16)Zeta": the marker abuts the vendor name
L_abut_vendor == K_0a_colon \o SP \o MarkerBase16 \o V_zeta
\* "FFFFFF (base 16) IEEE Registration Authority"
L_ff == K_FF \o SP \o MarkerBase16 \o SP \o V_ieee
\* "# comment"
L_comment == <<"#"," ","c","o","m","m","e","n","t">>
\* ""
L_empty == << >>
\* "GG:00:0C (hex) Vendor"
L_badhex == K_bad \o SP \o MarkerHex \o SP \o <<"V","e","n","d","o","r">>
\* "00000C (hex) ": the vendor name is white space only
L_blank_vendor == K_six \o SP \o MarkerHex \o SP

LineSet == {L_generic, L_generic_lower, L_specific, L_second,
            L_abut_key, L_abut_vendor, L_ff, L_comment, L_empty, L_badhex,
            L_blank_vendor}

RECURSIVE SeqsUpTo(_, _)
SeqsUpTo(S, n) ==
    IF n = 0 THEN {<< >>}
    ELSE LET shorter == SeqsUpTo(S, n - 1)
         IN  shorter \cup {Append(q, x) : q \in shorter, x \in S}

\* the text of a sequence of lines, each ended by "\n"
RECURSIVE JoinLines(_)
JoinLines(ls) ==
    IF ls = << >> THEN << >> ELSE Head(ls) \o <<NL>> \o JoinLines(Tail(ls))

Texts == {JoinLines(ls) : ls \in SeqsUpTo(LineSet, MaxLines)}

(***************************************************************************)
(* Sources.                                                                *)
(***************************************************************************)
PrimaryUrl == <<"h","t","t","p","s",":","/","/","s","t","a","n","d","a","r","d","s","-","o","u","i",".","i","e","e","e",".","o","r","g","/","o","u","i","/","o","u","i",".","t","x","t">>
LegacyUrl == <<"h","t","t","p","s",":","/","/","s","t","a","n","d","a","r","d","s","-","o","u","i",".","i","e","e","e",".","o","r","g","/","o","u","i",".","t","x","t">>
\* a command line argument naming a local file
LocalPath == <<"p","a","t","h","/","t","o","/","o","u","i",".","t","x","t">>

\* re.match(r"^https?://", arg)
IsUrl(arg) ==
    \/ startswith(arg, <<"h","t","t","p",":","/","/">>)
    \/ startswith(arg, <<"h","t","t","p","s",":","/","/">>)

\* os.environ.get("OUI_URL") or "<primary>", then the legacy path;
\* env is << >> when the variable is unset, else <<value>>
DEFAULT_URLS_of(env) ==
    << IF env # << >> /\ env[1] # << >> THEN env[1] ELSE PrimaryUrl, LegacyUrl >>

\* the loop without its break
LoopGoesOn_no_break(loaded, i, urls) == i < Len(urls)

\* the for loop over DEFAULT_URLS goes on to the next url after an exception
\* and ends at the first source that loads (break) or with the list
LoopGoesOn(loaded, i, urls) == ~loaded /\ i < Len(urls)

\* sys.exit(1) after the hint
UnreachableExitStatus == 1
\* sys.exit(1) for the empty table too
EmptyExitStatus_same == UnreachableExitStatus

\* sys.exit(2) after "Parsed table is empty."
EmptyExitStatus == 2
\* the exit status of the interpreter after an uncaught exception
UncaughtExitStatus == 1

HintLines == <<"Failed to download OUI list. Provide a local path:",
               "  python3 scripts/update_oui.py path/to/oui.txt">>
EmptyMessage == "Parsed table is empty."
Traceback == "Traceback (most recent call last):"

\* what the file Resources/oui holds before the run
OldFile == << <<"o","l","d",NL>> >>

VARIABLES
    argv,          \* sys.argv[1:]
    environ,       \* OUI_URL: << >> or <<value>>
    pc,            \* the position of main
    url_i,         \* the index in DEFAULT_URLS of the for loop
    calls,         \* the calls of load_source so far
    source_text,   \* << >> for None, else <<text>>
    parsed,        \* parse_oui was called
    lines,         \* text.splitlines() in parse_oui
    line_i,        \* the index in lines of the for loop of parse_oui
    out,           \* the dict parse_oui builds
    table,         \* the table of main
    keys,          \* sorted(table.keys())
    key_i,         \* the index in keys of the for loop that writes
    file,          \* the records of the output file
    opened,        \* the output file was opened for writing
    stdout,
    stderr,
    exit_status    \* -1 while the process runs

vars == <<argv, environ, pc, url_i, calls, source_text, parsed, lines, line_i, out,
          table, keys, key_i, file, opened, stdout, stderr, exit_status>>

DEFAULT_URLS == DEFAULT_URLS_of(environ)

EmptyTable == << >>

Init ==
    /\ argv \in {<< >>, <<LocalPath>>}
    /\ environ \in {<< >>, <<LegacyUrl>>}
    /\ pc = "makedirs"
    /\ url_i = 1
    /\ calls = << >>
    /\ source_text = << >>
    /\ parsed = FALSE
    /\ lines = << >>
    /\ line_i = 1
    /\ out = EmptyTable
    /\ table = EmptyTable
    /\ keys = << >>
    /\ key_i = 1
    /\ file = OldFile
    /\ opened = FALSE
    /\ stdout = << >>
    /\ stderr = << >>
    /\ exit_status = -1

\* an exception nothing catches: the interpreter prints the traceback and exits
Uncaught ==
    /\ stderr' = Append(stderr, Traceback)
    /\ exit_status' = UncaughtExitStatus
    /\ pc' = "done"

\* the record of one call of load_source: its argument, the entry of
\* DEFAULT_URLS it was (0 for sys.argv[1]), the branch load_source took,
\* and what it returned (<< >> when it raised)
Call(arg, entry, result) ==
    [arg |-> arg, entry |-> entry,
     via |-> IF IsUrl(arg) THEN "urlopen" ELSE "open",
     ok |-> result # << >>, result |-> result]

\* os.makedirs(resources_dir, exist_ok=True)
Makedirs ==
    /\ pc = "makedirs"
    /\ pc' = "input"
    /\ UNCHANGED <<argv, environ, url_i, calls, source_text, lines, line_i, out,
                   table, keys, key_i, file, opened, stdout, stderr,
                   exit_status, parsed>>

MakedirsFails ==
    /\ pc = "makedirs"
    /\ Uncaught
    /\ UNCHANGED <<argv, environ, url_i, calls, source_text, lines, line_i, out,
                   table, keys, key_i, file, opened, stdout, parsed>>

\* source_text = load_source(sys.argv[1]), the source loads
LoadArgument ==
    /\ pc = "input"
    /\ Len(argv) > 0
    /\ \E text \in Texts :
          /\ source_text' = <<text>>
          /\ calls' = Append(calls, Call(argv[1], 0, <<text>>))
    /\ pc' = "parse"
    /\ UNCHANGED <<argv, environ, url_i, lines, line_i, out, table, keys, key_i,
                   file, opened, stdout, stderr, exit_status, parsed>>

\* source_text = load_source(sys.argv[1]) raises: nothing catches it
LoadArgumentFails ==
    /\ pc = "input"
    /\ Len(argv) > 0
    /\ calls' = Append(calls, Call(argv[1], 0, << >>))
    /\ Uncaught
    /\ UNCHANGED <<argv, environ, url_i, source_text, lines, line_i, out, table,
                   keys, key_i, file, opened, stdout, parsed>>

\* one iteration of the for loop over DEFAULT_URLS, the source loads: break
LoadDefault ==
    /\ pc = "input"
    /\ Len(argv) = 0
    /\ url_i <= Len(DEFAULT_URLS)
    /\ \E text \in Texts :
          /\ source_text' = <<text>>
          /\ calls' = Append(calls, Call(DEFAULT_URLS[url_i], url_i, <<text>>))
    /\ IF LoopGoesOn(TRUE, url_i, DEFAULT_URLS)
       THEN url_i' = url_i + 1 /\ pc' = "input"
       ELSE url_i' = url_i /\ pc' = "parse"
    /\ UNCHANGED <<argv, environ, lines, line_i, out, table, keys, key_i, file,
                   opened, stdout, stderr, exit_status, parsed>>

\* one iteration of the for loop over DEFAULT_URLS, load_source raises: continue
LoadDefaultFails ==
    /\ pc = "input"
    /\ Len(argv) = 0
    /\ url_i <= Len(DEFAULT_URLS)
    /\ calls' = Append(calls, Call(DEFAULT_URLS[url_i], url_i, << >>))
    /\ IF LoopGoesOn(source_text # << >>, url_i, DEFAULT_URLS)
       THEN url_i' = url_i + 1 /\ pc' = "input"
       ELSE url_i' = url_i /\ pc' = IF source_text = << >> THEN "nosource" ELSE "parse"
    /\ UNCHANGED <<argv, environ, source_text, lines, line_i, out, table, keys,
                   key_i, file, opened, stdout, stderr, exit_status,
                   parsed>>

\* the hint printed without file=sys.stderr
NoSource_to_stdout ==
    /\ pc = "nosource"
    /\ stdout' = stdout \o HintLines
    /\ exit_status' = UnreachableExitStatus
    /\ pc' = "done"
    /\ UNCHANGED <<argv, environ, url_i, calls, source_text, lines, line_i, out,
                   table, keys, key_i, file, opened, stderr, parsed>>

\* if source_text is None: the hint on stderr, sys.exit(1)
NoSource ==
    /\ pc = "nosource"
    /\ stderr' = stderr \o HintLines
    /\ exit_status' = UnreachableExitStatus
    /\ pc' = "done"
    /\ UNCHANGED <<argv, environ, url_i, calls, source_text, lines, line_i, out,
                   table, keys, key_i, file, opened, stdout, parsed>>

\* table = parse_oui(source_text): out = {}, the lines of the text
ParseBegin ==
    /\ pc = "parse"
    /\ parsed' = TRUE
    /\ lines' = splitlines(source_text[1])
    /\ line_i' = 1
    /\ out' = EmptyTable
    /\ pc' = "fold"
    /\ UNCHANGED <<argv, environ, url_i, calls, source_text, table, keys, key_i,
                   file, opened, stdout, stderr, exit_status>>

\* one iteration of the for loop of parse_oui
ParseLine ==
    /\ pc = "fold"
    /\ line_i <= Len(lines)
    /\ out' = ParseStep(out, lines[line_i])
    /\ line_i' = line_i + 1
    /\ UNCHANGED <<argv, environ, pc, url_i, calls, source_text, lines, table,
                   keys, key_i, file, opened, stdout, stderr,
                   exit_status, parsed>>

\* return out
ParseReturn ==
    /\ pc = "fold"
    /\ line_i > Len(lines)
    /\ table' = out
    /\ pc' = "check"
    /\ UNCHANGED <<argv, environ, url_i, calls, source_text, lines, line_i, out,
                   keys, key_i, file, opened, stdout, stderr,
                   exit_status, parsed>>

\* the output file opened before the test of the table
EmptyResult_after_open ==
    /\ pc = "check"
    /\ DOMAIN table = {}
    /\ opened' = TRUE
    /\ file' = << >>
    /\ stderr' = Append(stderr, EmptyMessage)
    /\ exit_status' = EmptyExitStatus
    /\ pc' = "done"
    /\ UNCHANGED <<argv, environ, url_i, calls, source_text, lines, line_i, out,
                   table, keys, key_i, stdout, parsed>>

\* if not table: the message on stderr, sys.exit(2)
EmptyResult ==
    /\ pc = "check"
    /\ DOMAIN table = {}
    /\ stderr' = Append(stderr, EmptyMessage)
    /\ exit_status' = EmptyExitStatus
    /\ pc' = "done"
    /\ UNCHANGED <<argv, environ, url_i, calls, source_text, lines, line_i, out,
                   table, keys, key_i, file, opened, stdout, parsed>>

\* open(output_path, "w") truncates the file; sorted(table.keys())
OpenOutput ==
    /\ pc = "check"
    /\ DOMAIN table # {}
    /\ opened' = TRUE
    /\ file' = << >>
    /\ keys' = sorted(DOMAIN table)
    /\ key_i' = 1
    /\ pc' = "write"
    /\ UNCHANGED <<argv, environ, url_i, calls, source_text, lines, line_i, out,
                   table, stdout, stderr, exit_status, parsed>>

\* open(output_path, "w") raises
OpenOutputFails ==
    /\ pc = "check"
    /\ DOMAIN table # {}
    /\ Uncaught
    /\ UNCHANGED <<argv, environ, url_i, calls, source_text, lines, line_i, out,
                   table, keys, key_i, file, opened, stdout, parsed>>

\* f.write(f"{k}\t{table[k]}\n")
WriteRecord ==
    /\ pc = "write"
    /\ key_i <= Len(keys)
    /\ file' = Append(file, RecordOf(keys[key_i], table[keys[key_i]]))
    /\ key_i' = key_i + 1
    /\ UNCHANGED <<argv, environ, pc, url_i, calls, source_text, lines, line_i,
                   out, table, keys, opened, stdout, stderr, exit_status,
                   parsed>>

\* f.write raises
WriteRecordFails ==
    /\ pc = "write"
    /\ key_i <= Len(keys)
    /\ Uncaught
    /\ UNCHANGED <<argv, environ, url_i, calls, source_text, lines, line_i, out,
                   table, keys, key_i, file, opened, stdout, parsed>>

\* print(f"Wrote {len(table)} entries to {output_path}"), the process ends
PrintWrote ==
    /\ pc = "write"
    /\ key_i > Len(keys)
    /\ stdout' = Append(stdout, [wrote |-> Cardinality(DOMAIN table)])
    /\ exit_status' = 0
    /\ pc' = "done"
    /\ UNCHANGED <<argv, environ, url_i, calls, source_text, lines, line_i, out,
                   table, keys, key_i, file, opened, stderr, parsed>>

Next ==
    \/ Makedirs
    \/ MakedirsFails
    \/ LoadArgument
    \/ LoadArgumentFails
    \/ LoadDefault
    \/ LoadDefaultFails
    \/ NoSource
    \/ ParseBegin
    \/ ParseLine
    \/ ParseReturn
    \/ EmptyResult
    \/ OpenOutput
    \/ OpenOutputFails
    \/ WriteRecord
    \/ WriteRecordFails
    \/ PrintWrote

Spec == Init /\ [][Next]_vars

(***************************************************************************)
(* Properties.                                                             *)
(***************************************************************************)
Key0C == K_six
Key0A == K_0A
EXAMPLE_CORP == <<"E","X","A","M","P","L","E"," ","C","O","R","P">>
ACME_LTD == <<"A","C","M","E"," ","L","T","D">>
ZETA == <<"Z","E","T","A">>

\* parse_oui has gone through every line of its text
ParseComplete == parsed /\ line_i > Len(lines)

\* the lines of LineSet that are valid and have the key 00000C
GenericLines0C == {L_generic, L_generic_lower}
LinesOf0C == GenericLines0C \cup {L_specific, L_second}

\* C1: a text whose two valid lines for the key 00000C are "IEEE Registration
\* Authority" (in either letter case) and "Example Corp" ends with the key
\* mapped to "EXAMPLE CORP", whichever of the two lines comes first.
C1_SpecificWinsInBothOrders ==
    ParseComplete =>
        \A i, j \in 1..Len(lines) :
            ( /\ lines[i] \in GenericLines0C
              /\ lines[j] = L_specific
              /\ \A k \in 1..Len(lines) \ {i, j} : lines[k] \notin LinesOf0C )
            => Key0C \in DOMAIN out /\ out[Key0C] = EXAMPLE_CORP

\* the generic line first, the specific line second, both processed
C1_Witness ==
    /\ ParseComplete
    /\ Len(lines) = 2
    /\ lines[1] = L_generic_lower
    /\ lines[2] = L_specific
    /\ out[Key0C] = EXAMPLE_CORP

\* the pair a line brings in, alone: the table it makes of the empty table
Incoming(line) == ParseStep(EmptyTable, line)

\* C2: in the fold, an existing entry is kept except when the incoming pair is
\* specific and the existing one generic; a key mapped to a specific vendor
\* keeps its value in every later step of the run; an incoming generic pair
\* for an existing key leaves the whole table as it was.
C2_ExistingKept ==
    [][ /\ \A k \in DOMAIN out :
              out[k] # IEEE_RA => k \in DOMAIN out' /\ out'[k] = out[k]
        /\ ParseLine =>
              /\ \A k \in DOMAIN out :
                    /\ k \in DOMAIN out'
                    /\ out'[k] # out[k] => out[k] = IEEE_RA /\ out'[k] # IEEE_RA
              /\ \A k \in DOMAIN out :
                    Incoming(lines[line_i]) = [x \in {k} |-> IEEE_RA] => out' = out
      ]_vars

\* a specific entry has survived a second specific line and a generic line
C2_Witness ==
    /\ ParseComplete
    /\ lines = <<L_specific, L_second, L_generic>>
    /\ out = [x \in {Key0C} |-> EXAMPLE_CORP]

UpperHex == Range(Digits) \cup {"A","B","C","D","E","F"}
\* white space of any kind
AnyWS == WS \cup {NL, "\r"}

WellFormedKey(k) == Len(k) = 6 /\ \A i \in 1..Len(k) : k[i] \in UpperHex

WellFormedVendor(v) ==
    /\ v # << >>
    /\ \A i \in 1..Len(v) : v[i] \notin Range(LowerAlpha)
    /\ v[1] \notin AnyWS
    /\ v[Len(v)] \notin AnyWS
    /\ \A i \in 1..Len(v) : v[i] \in AnyWS => v[i] = " " /\ v[i-1] \notin AnyWS

\* C3: after any prefix of the lines, every key of the table is 6 characters
\* of 0-9A-F and every vendor name is non-empty, upper case, trimmed, and has
\* no white space other than single spaces.
C3_EntriesWellFormed ==
    \A k \in DOMAIN out : WellFormedKey(k) /\ WellFormedVendor(out[k])

\* an entry made of a lower case key and a name with runs of white space
C3_Witness ==
    /\ pc = "fold"
    /\ line_i = 3
    /\ lines[1] = L_generic_lower
    /\ lines[2] = L_second
    /\ out = [x \in {Key0C} |-> ACME_LTD]

\* the key of a record of the output file: what precedes its first tab
KeyOfRecord(r) ==
    SubSeq(r, 1, (CHOOSE i \in 1..Len(r) : r[i] = TAB /\ \A j \in 1..(i-1) : r[j] # TAB) - 1)

\* C4: after a successful run the file holds one KEY<TAB>VENDOR record per
\* entry of the table and nothing else, in strictly ascending order of key.
C4_SortedRecords ==
    pc = "done" /\ exit_status = 0 =>
        /\ Len(file) = Cardinality(DOMAIN table)
        /\ \A i \in 1..Len(file) :
              \E k \in DOMAIN table : file[i] = k \o <<TAB>> \o table[k] \o <<NL>>
        /\ \A i, j \in 1..Len(file) :
              i < j => StrLess(KeyOfRecord(file[i]), KeyOfRecord(file[j]))

\* three entries, met in descending order of key, written in ascending order
C4_Witness ==
    /\ pc = "done"
    /\ exit_status = 0
    /\ lines = <<L_ff, L_abut_key, L_specific>>
    /\ Len(file) = 3

\* every candidate source was tried and none loaded
AllSourcesFailed ==
    /\ \A i \in 1..Len(calls) : ~calls[i].ok
    /\ Len(calls) = IF argv # << >> THEN 1 ELSE Len(DEFAULT_URLS)

\* the two lines of the hint are on stderr, one after the other
HintPrinted ==
    \E i \in 1..(Len(stderr) - 1) :
        stderr[i] = HintLines[1] /\ stderr[i + 1] = HintLines[2]

NothingParsedOrWritten == ~parsed /\ ~opened /\ file = OldFile /\ stdout = << >>

\* C5 as stated: when every candidate source fails, the explicit argument
\* included, the run ends with a non-zero exit and the hint on stderr, without
\* parsing and without writing.
C5_HintWheneverUnreachable ==
    pc = "done" /\ AllSourcesFailed =>
        exit_status # 0 /\ HintPrinted /\ NothingParsedOrWritten

\* C5 amended: when every candidate source fails the run ends with a non-zero
\* exit, without parsing and without writing; the hint is printed (and the
\* exit status is that of sys.exit(1)) when the sources were the default
\* urls; when the source was the explicit argument the exception is not
\* caught and stderr holds the traceback, not the hint.
C5_UnreachableEndsRun ==
    pc = "done" /\ AllSourcesFailed =>
        /\ exit_status # 0
        /\ NothingParsedOrWritten
        /\ argv = << >> => HintPrinted /\ stderr = HintLines /\ exit_status = 1
        /\ argv # << >> => ~HintPrinted /\ stderr = <<Traceback>>

\* both default urls have failed and the run has ended
C5_Witness ==
    /\ pc = "done"
    /\ argv = << >>
    /\ Len(calls) = 2
    /\ ~calls[1].ok /\ ~calls[2].ok

\* C6: a run whose source loaded and whose table is empty never gets to the
\* output file: it ends with the message of the empty result and an exit
\* status that is not zero and is not the exit status of any run whose
\* sources all failed.
C6_EmptyResultStatus ==
    /\ ParseComplete /\ DOMAIN out = {} => pc \in {"fold", "check", "done"}
    /\ pc = "done" /\ ParseComplete /\ DOMAIN table = {} =>
          /\ stderr = <<EmptyMessage>>
          /\ exit_status # 0
          /\ exit_status \notin {UnreachableExitStatus, UncaughtExitStatus}
          /\ ~opened
    /\ pc = "done" /\ AllSourcesFailed =>
          exit_status \in {UnreachableExitStatus, UncaughtExitStatus}

\* a text of a comment and an empty line has ended the run
C6_Witness ==
    /\ pc = "done"
    /\ lines = <<L_comment, L_empty>>
    /\ DOMAIN table = {}
    /\ exit_status = 2

\* C7: with no argument the entries of DEFAULT_URLS are tried in list order,
\* each at most once, a later one only after the earlier ones have failed and
\* none after one has loaded, and the text parsed is that of the entry that
\* loaded; with an argument only the argument is tried.
C7_OrderedFallback ==
    /\ argv = << >> =>
          /\ Len(calls) <= Len(DEFAULT_URLS)
          /\ \A i \in 1..Len(calls) :
                /\ calls[i].entry = i
                /\ calls[i].arg = DEFAULT_URLS[i]
                /\ \A j \in 1..(i-1) : ~calls[j].ok
          /\ parsed =>
                /\ calls[Len(calls)].ok
                /\ source_text = calls[Len(calls)].result
                /\ lines = splitlines(calls[Len(calls)].result[1])
    /\ argv # << >> =>
          /\ Len(calls) <= 1
          /\ \A i \in 1..Len(calls) : calls[i].entry = 0 /\ calls[i].arg = argv[1]
          /\ parsed => calls[1].ok /\ source_text = calls[1].result

\* the primary url has failed, the legacy url has loaded and is parsed
C7_Witness ==
    /\ argv = << >>
    /\ Len(calls) = 2
    /\ ~calls[1].ok
    /\ calls[2].ok
    /\ calls[2].arg = LegacyUrl
    /\ parsed

\* the lines of LineSet that match neither grammar
NoGrammarLines == {L_badhex}

\* a line that is empty, begins with "#" or matches neither grammar
Skipped(line) == line = << >> \/ line[1] = "#" \/ line \in NoGrammarLines

RECURSIVE ParseAll(_, _)
ParseAll(tbl, ls) ==
    IF ls = << >> THEN tbl ELSE ParseAll(ParseStep(tbl, Head(ls)), Tail(ls))

\* C8: a line that is empty, begins with "#" or matches neither grammar leaves
\* the table as it was, raises nothing and lets the loop go on; the table
\* parse_oui returns for a text is the table of the text without such lines.
C8_SkippedLinesChangeNothing ==
    [][ /\ ParseLine /\ Skipped(lines[line_i]) =>
              /\ out' = out
              /\ pc' = "fold"
              /\ line_i' = line_i + 1
              /\ stderr' = stderr
              /\ exit_status' = -1
        /\ ParseReturn =>
              table' = ParseAll(EmptyTable, SelectSeq(lines, LAMBDA l : ~Skipped(l)))
      ]_vars

\* the line with the malformed key and a comment around a valid line
C8_Witness ==
    /\ ParseComplete
    /\ lines = <<L_badhex, L_specific, L_comment>>
    /\ out = [x \in {Key0C} |-> EXAMPLE_CORP]

\* the lines of LineSet in which the marker abuts the key or the vendor name
AbuttingLines == {L_abut_key, L_abut_vendor}

\* C9 as stated: a line in which the marker abuts the key or the vendor name
\* matches neither grammar and contributes no entry.
C9_AbuttingMarkerRejected ==
    ParseComplete /\ (\A i \in 1..Len(lines) : lines[i] \in AbuttingLines)
        => out = EmptyTable

\* C9 amended: white space between the key and the marker and between the
\* marker and the vendor name is optional; a line in which the marker abuts
\* the key or the vendor name matches and contributes its entry.
C9_AbuttingMarkerAccepted ==
    parsed =>
        \A i \in 1..(line_i - 1) :
            lines[i] \in AbuttingLines => Key0A \in DOMAIN out /\ out[Key0A] = ZETA

\* a text of the line whose marker abuts the vendor name has made its entry
C9_Witness ==
    /\ ParseComplete
    /\ lines = <<L_abut_vendor>>
    /\ out = [x \in {Key0A} |-> ZETA]

\* C10: the output file is opened only after a source has loaded and the
\* parse has ended with a table that is not empty; a run that ends with the
\* hint or with the message of the empty table has not touched the file; when
\* the success message is printed every entry of the table is in the file.
C10_AllOrNothing ==
    /\ opened =>
          /\ source_text # << >>
          /\ ParseComplete
          /\ table = out
          /\ DOMAIN table # {}
    /\ file # OldFile => opened
    /\ pc = "done" /\ (AllSourcesFailed \/ (ParseComplete /\ DOMAIN table = {})) =>
          ~opened /\ file = OldFile
    /\ stdout # << >> =>
          /\ opened
          /\ Len(file) = Cardinality(DOMAIN table)
          /\ \A k \in DOMAIN table : RecordOf(k, table[k]) \in Range(file)

\* the success message is printed after two records were written
C10_Witness ==
    /\ pc = "done"
    /\ stdout = <<[wrote |-> 2]>>
    /\ Len(file) = 2
    /\ lines = <<L_generic, L_ff>>

====
